---- MODULE Spec2Model ----
(***************************************************************************)
(* Playback control layer of the jellyfin-chromecast receiver.             *)
(*                                                                         *)
(*   playbackManager  (PlaybackState variant)  src/unnamed/part_000        *)
(*   playbackManager  ($scope variant)  src/src/components/playbackManager.ts *)
(*   jellyfinActions  (session reporter)       src/unnamed/part_001        *)
(*                                                                         *)
(* The two variants of the manager differ in stop(): the PlaybackState     *)
(* variant tears down synchronously in stop(continuing), the $scope        *)
(* variant only asks the host surface to stop and tears down in            *)
(* onStopped().  `variant` is fixed by Init and selects the code.          *)
(*                                                                         *)
(* JavaScript values: '' is "", null is "null" for object-valued fields    *)
(* and <<>> for number-valued fields (a number n is <<n>>), undefined is   *)
(* "undefined".  Array indices are 0-based as in the source; a sequence    *)
(* element i of the source is element i + 1 here.                          *)
(***************************************************************************)
EXTENDS Integers, Sequences, FiniteSets, TLC

VARIABLES
    variant,    \* which playbackManager source is running
    mgr,        \* playbackManager instance: activePlaylist, activePlaylistIndex, playbackState
    win,        \* window.playlist, window.currentPlaylistIndex
    jf,         \* jellyfinActions module state: pingInterval, lastTranscoderPing, live timers
    host,       \* host playback surface (cast PlayerManager)
    doc,        \* DocumentManager app status
    negs,       \* playItem calls and their negotiations, in call order
    log,        \* server requests issued on behalf of playItem calls, in order
    now,        \* wall clock, ms (new Date().getTime())
    hist,       \* history of reporter calls (observation only)
    lastOp,     \* the operation that produced this state, and what it returned
    out         \* what that operation broadcast, posted and told the host, in order

vars == <<variant, mgr, win, jf, host, doc, negs, log, now, hist, lastOp, out>>

---------------------------------------------------------------------------
(* Bounds of the model *)

\* number of playItem calls (negotiations) in one behaviour
MaxNegs == 2
\* longest playlist handed to playFromOptions
MaxPlaylistLen == 2
\* number of clock steps (of one ping period each) in one behaviour
Horizon == 9

(* Program constants *)

\* setInterval(..., 1000)
PingPeriod == 1000
\* if (now - lastTranscoderPing < 5000)
PingThreshold == 5000

\* The clock starts late enough that the initial lastTranscoderPing = 0 is
\* more than the threshold in the past, as it is for any real Date.
StartTime == 2 * PingThreshold
MaxTime == StartTime + Horizon * PingPeriod

Catalog == <<"itemA", "itemB", "itemC", "itemD">>
Playlists == { SubSeq(Catalog, 1, n) : n \in 1..MaxPlaylistLen }
StartPositions == {70}
\* PlaySessionId the server gives to the k-th playback-info request
SessionNames == <<"ps1", "ps2", "ps3", "ps4">>
SessionIds == {"ps1", "ps2"}
PlayMethods == {"Transcode", "DirectPlay"}
Variants == {"PlaybackState", "$scope"}

\* options = {}: no start position
DefaultOptions == [ startPositionTicks |-> 0 ]

Null == "null"
NullNum == <<>>
Undefined == "undefined"

---------------------------------------------------------------------------
(* jellyfinActions: the keep-alive ping timer *)

\* The handle pingInterval is <<n>> for the number n and <<>> while it has
\* never been assigned (let pingInterval: number;).
NoHandle == <<>>

\* let pingInterval: number; let lastTranscoderPing = 0;
JfInit ==
    [ pingInterval |-> NoHandle,
      lastTranscoderPing |-> 0,
      timers |-> {} ]

\* clearInterval(handle): a handle that names no live timer clears nothing
ClearInterval(timers, handle) == { t \in timers : <<t.id>> # handle }

\* setInterval returns a non-zero id no live timer has.  (Ids of cleared
\* timers are reused here to keep the id space finite; the only handle the
\* program keeps is pingInterval, which is 0 when a new timer is made.)
NewTimerId(j) ==
    CHOOSE n \in 1..(Cardinality(j.timers) + 2) :
        /\ \A t \in j.timers : t.id # n
        /\ <<n>> # j.pingInterval

\* stopPingInterval(): undefined !== 0, so the first call "clears" undefined
StopPingInterval(j) ==
    IF j.pingInterval # <<0>>
    THEN [j EXCEPT !.timers = ClearInterval(@, j.pingInterval),
                   !.pingInterval = <<0>>]
    ELSE j

\* mutant: a new timer is made without cancelling the old one
RestartPingInterval_NoStop(j, reportingParams, t) ==
    IF reportingParams.PlayMethod = "Transcode"
    THEN LET id == NewTimerId(j) IN
         [j EXCEPT !.pingInterval = <<id>>,
                   !.timers = @ \cup { [id |-> id,
                                        params |-> reportingParams,
                                        due |-> t + PingPeriod] }]
    ELSE j

\* mutant: the timer is restarted whatever the play method
RestartPingInterval_Always(j, reportingParams, t) ==
    LET s == StopPingInterval(j)
        id == NewTimerId(s) IN
    [s EXCEPT !.pingInterval = <<id>>,
              !.timers = @ \cup { [id |-> id,
                                   params |-> reportingParams,
                                   due |-> t + PingPeriod] }]

\* mutant: the new timer goes on pinging for the session of the timer it
\* replaces
RestartPingInterval_KeepParams(j, reportingParams, t) ==
    LET s == StopPingInterval(j)
        kept == IF j.timers # {}
                THEN (CHOOSE x \in j.timers : TRUE).params
                ELSE reportingParams IN
    IF reportingParams.PlayMethod = "Transcode"
    THEN LET id == NewTimerId(s) IN
         [s EXCEPT !.pingInterval = <<id>>,
                   !.timers = @ \cup { [id |-> id,
                                        params |-> kept,
                                        due |-> t + PingPeriod] }]
    ELSE s

\* restartPingInterval(reportingParams), called at time t
RestartPingInterval(j, reportingParams, t) ==
    LET s == StopPingInterval(j) IN
    IF reportingParams.PlayMethod = "Transcode"
    THEN LET id == NewTimerId(s) IN
         [s EXCEPT !.pingInterval = <<id>>,
                   !.timers = @ \cup { [id |-> id,
                                        params |-> reportingParams,
                                        due |-> t + PingPeriod] }]
    ELSE s

\* mutant: the threshold test is dropped, every tick pings
PingSent_Always(j, t) == t >= 0

\* pingTranscoder: does the call at time t send the ping request?
PingSent(j, t) == ~(t - j.lastTranscoderPing < PingThreshold)

\* mutant: a ping that is sent leaves lastTranscoderPing as it was
PingTranscoder_NoStamp(j, t) == j

\* pingTranscoder(reportingParams) at time t
PingTranscoder(j, t) ==
    IF PingSent(j, t) THEN [j EXCEPT !.lastTranscoderPing = t] ELSE j

\* mutant: a progress report does not refresh lastTranscoderPing
ProgressJf_NoStamp(j, reportingParams, t) ==
    RestartPingInterval(j, reportingParams, t)

\* reportPlaybackProgress with reportToServer = true: timer and timestamp
ProgressJf(j, reportingParams, t) ==
    [RestartPingInterval(j, reportingParams, t) EXCEPT !.lastTranscoderPing = t]

---------------------------------------------------------------------------
(* PlaybackState *)

\* playbackState: PlaybackState = { ... }: the documented zero value
ZeroPlaybackState ==
    [ audioStreamIndex |-> NullNum,
      canSeek |-> FALSE,
      isChangingStream |-> FALSE,
      item |-> Null,
      itemId |-> "",
      liveStreamId |-> "",
      mediaSource |-> Null,
      mediaSourceId |-> "",
      mediaType |-> "",
      PlaybackMediaSource |-> Null,
      playMethod |-> Undefined,
      playNextItemBool |-> TRUE,
      playSessionId |-> "",
      runtimeTicks |-> 0,
      startPositionTicks |-> 0,
      subtitleStreamIndex |-> NullNum ]

\* resetPlaybackScope(): the fields it assigns (runtimeTicks is not one)
ResetPlaybackScope(ps) ==
    [ps EXCEPT !.startPositionTicks = 0,
               !.mediaType = "",
               !.itemId = "",
               !.audioStreamIndex = NullNum,
               !.subtitleStreamIndex = NullNum,
               !.mediaSource = Null,
               !.mediaSourceId = "",
               !.PlaybackMediaSource = Null,
               !.playMethod = Undefined,
               !.canSeek = FALSE,
               !.isChangingStream = FALSE,
               !.playNextItemBool = TRUE,
               !.item = Null,
               !.liveStreamId = "",
               !.playSessionId = ""]

\* load(playbackMgr, customData, serverItem): reset, then copy customData
Load(ps, customData, serverItem) ==
    [ResetPlaybackScope(ps) EXCEPT
        !.playSessionId = customData.playSessionId,
        !.audioStreamIndex = customData.audioStreamIndex,
        !.subtitleStreamIndex = customData.subtitleStreamIndex,
        !.startPositionTicks = customData.startPositionTicks,
        !.canSeek = customData.canSeek,
        !.itemId = customData.itemId,
        !.liveStreamId = customData.liveStreamId,
        !.mediaSourceId = customData.mediaSourceId,
        !.playMethod = customData.playMethod,
        !.runtimeTicks = customData.runtimeTicks,
        !.item = serverItem,
        !.mediaType = "Video"]

---------------------------------------------------------------------------
(* Collaborators whose code is outside src/ *)

\* Media sources the server can offer, as getOptimalMediaSource and
\* createStreamInfo see them.
MediaSources == {"msTranscode", "msLive"}
OpenedSource == "msLiveOpened"

SourceInfo(ms) ==
    CASE ms = "msTranscode" ->
            [RequiresOpening |-> FALSE, playMethod |-> "Transcode",
             RunTimeTicks |-> 800, LiveStreamId |-> "", canSeek |-> TRUE]
      [] ms = "msLive" ->
            [RequiresOpening |-> TRUE, playMethod |-> "Transcode",
             RunTimeTicks |-> 0, LiveStreamId |-> "", canSeek |-> FALSE]
      [] OTHER ->
            [RequiresOpening |-> FALSE, playMethod |-> "DirectPlay",
             RunTimeTicks |-> 0, LiveStreamId |-> "live1", canSeek |-> FALSE]

\* createStreamInfo + createMediaInformation: mediaInfo.customData
CustomData(playSessionId, item, mediaSource, options) ==
    [ playSessionId |-> playSessionId,
      audioStreamIndex |-> NullNum,
      subtitleStreamIndex |-> NullNum,
      startPositionTicks |-> options.startPositionTicks,
      canSeek |-> SourceInfo(mediaSource).canSeek,
      itemId |-> item,
      liveStreamId |-> SourceInfo(mediaSource).LiveStreamId,
      mediaSourceId |-> mediaSource,
      playMethod |-> SourceInfo(mediaSource).playMethod,
      runtimeTicks |-> SourceInfo(mediaSource).RunTimeTicks ]

\* getNextPlaybackItemInfo(): the item after window.currentPlaylistIndex in
\* window.playlist, or nothing when there is none
GetNextPlaybackItemInfo(w) ==
    LET newIndex == w.currentPlaylistIndex + 1 IN
    IF newIndex < Len(w.playlist)
    THEN [found |-> TRUE, index |-> newIndex, item |-> w.playlist[newIndex + 1]]
    ELSE [found |-> FALSE]

\* getReportingParams(state): what the manager's own reports carry
StateParams(ps) ==
    [ PlaySessionId |-> ps.playSessionId, PlayMethod |-> ps.playMethod ]

\* playerManager.stop(): the media is unloaded
PlayerManagerStop(h) == [h EXCEPT !.loaded = ""]

\* playerManager.load(loadRequestData)
PlayerManagerLoad(h, playSessionId) == [h EXCEPT !.loaded = playSessionId]

---------------------------------------------------------------------------
(* Handlers are sequential code: each is a function from the program state *)
(* before the call to the program state after it.                          *)

Cur ==
    [ mgr |-> mgr, win |-> win, jf |-> jf, host |-> host, doc |-> doc,
      negs |-> negs, log |-> log, hist |-> hist, out |-> <<>> ]

Commit(s) ==
    /\ mgr' = s.mgr
    /\ win' = s.win
    /\ jf' = s.jf
    /\ host' = s.host
    /\ doc' = s.doc
    /\ negs' = s.negs
    /\ log' = s.log
    /\ hist' = s.hist
    /\ out' = s.out

\* the handler emits an effect: a broadcast to the message bus, a request
\* posted to the server, a call of the host surface, a timer cancellation
Emit(s, kind, what, id) ==
    [s EXCEPT !.out = Append(@, [kind |-> kind, what |-> what, id |-> id])]

\* history: the most recent call among the reports and the manager's stops
\* (lastCall counts every one of them, lastTimerCall all but the $scope
\* variant's stop()); stopped: a stop report has been made since the last
\* start report; lastReportId: the PlaySessionId of the last start or server
\* progress report; pingFailed: the last ping request sent was rejected and no
\* report or stop has been made since
NoteCall(h, c) ==
    [h EXCEPT !.lastCall = c, !.lastTimerCall = c, !.pingFailed = FALSE]

CallName(kind, reportingParams) ==
    IF reportingParams.PlayMethod = "Transcode"
    THEN <<kind, "Transcode">> ELSE <<kind, "other">>

IsTranscodeCall(c) ==
    c \in { <<"start", "Transcode">>, <<"progress", "Transcode">> }

---------------------------------------------------------------------------
(* jellyfinActions: the reports *)

\* reportPlaybackStart(state, reportingParams)
ReportPlaybackStartOp(s, reportingParams, t) ==
    LET s1 == Emit(s, "broadcast", "playbackstart", reportingParams.PlaySessionId)
        s2 == [s1 EXCEPT !.jf = RestartPingInterval(@, reportingParams, t),
                         !.hist = [NoteCall(@, CallName("start", reportingParams))
                                     EXCEPT !.stopped = FALSE,
                                            !.lastReportId = reportingParams.PlaySessionId]]
    IN  Emit(s2, "post", "Sessions/Playing", reportingParams.PlaySessionId)

\* mutant: the timer and the timestamp are refreshed before reportToServer
\* is looked at
ReportPlaybackProgressOp_AlwaysRestart(s, reportingParams, reportToServer, t) ==
    LET s1 == Emit(s, "broadcast", "playbackprogress", reportingParams.PlaySessionId)
        s2 == [s1 EXCEPT !.jf = ProgressJf(@, reportingParams, t)] IN
    IF reportToServer = FALSE
    THEN s2
    ELSE LET s3 == [s2 EXCEPT
                      !.hist = [NoteCall(@, CallName("progress", reportingParams))
                                  EXCEPT !.lastProgressAt = t,
                                         !.lastReportId = reportingParams.PlaySessionId]]
         IN  Emit(s3, "post", "Sessions/Playing/Progress", reportingParams.PlaySessionId)

\* reportPlaybackProgress(state, reportingParams, reportToServer)
ReportPlaybackProgressOp(s, reportingParams, reportToServer, t) ==
    LET s1 == Emit(s, "broadcast", "playbackprogress", reportingParams.PlaySessionId) IN
    IF reportToServer = FALSE
    THEN s1
    ELSE LET s2 == [s1 EXCEPT
                      !.jf = ProgressJf(@, reportingParams, t),
                      !.hist = [NoteCall(@, CallName("progress", reportingParams))
                                  EXCEPT !.lastProgressAt = t,
                                         !.lastReportId = reportingParams.PlaySessionId]]
         IN  Emit(s2, "post", "Sessions/Playing/Progress", reportingParams.PlaySessionId)

\* reportPlaybackStopped(state, reportingParams); k is the playItem call the
\* report is issued for (0: none)
ReportPlaybackStoppedOp(s, reportingParams, k) ==
    LET s1 == Emit([s EXCEPT !.jf = StopPingInterval(@)],
                   "cancel", "pingInterval", reportingParams.PlaySessionId)
        s2 == Emit(s1, "broadcast", "playbackstop", reportingParams.PlaySessionId)
        s3 == [s2 EXCEPT !.hist = [NoteCall(@, <<"stopped", "other">>)
                                     EXCEPT !.stopped = TRUE],
                         !.log = IF k > 0
                                 THEN Append(@, [ev |-> "stopped",
                                                 id |-> reportingParams.PlaySessionId,
                                                 neg |-> k])
                                 ELSE @]
    IN  Emit(s3, "post", "Sessions/Playing/Stopped", reportingParams.PlaySessionId)

\* stop() of jellyfinActions, as the PlaybackState variant imports it: the
\* server-side stopped report for the current state
JfStop(s, k) ==
    ReportPlaybackStoppedOp(s, StateParams(s.mgr.playbackState), k)

---------------------------------------------------------------------------
(* playbackManager *)

\* mutant: stop(continuing) that leaves the reporter alone
StopOp_NoTimerCancel(s, continuing, k) ==
    LET s1 == [s EXCEPT !.mgr.playbackState.playNextItemBool = continuing]
        s4 == [s1 EXCEPT !.host = PlayerManagerStop(@)]
    IN  [s4 EXCEPT !.mgr.activePlaylist = <<>>,
                   !.mgr.activePlaylistIndex = -1,
                   !.hist = NoteCall(@, <<"stop", "other">>)]

\* mutant: stop(continuing) that forgets to reset the playlist index
StopOp_KeepIndex(s, continuing, k) ==
    LET s1 == [s EXCEPT !.mgr.playbackState.playNextItemBool = continuing]
        s2 == JfStop(s1, k)
        s3 == [s2 EXCEPT !.jf = StopPingInterval(@)]
        s4 == [s3 EXCEPT !.host = PlayerManagerStop(@)]
    IN  [s4 EXCEPT !.mgr.activePlaylist = <<>>,
                   !.hist = NoteCall(@, <<"stop", "other">>)]

\* mutant: stop(continuing) that keeps the playlist when playback is to
\* continue with the next item
StopOp_ContinuingKeepsPlaylist(s, continuing, k) ==
    LET s1 == [s EXCEPT !.mgr.playbackState.playNextItemBool = continuing]
        s2 == JfStop(s1, k)
        s3 == [s2 EXCEPT !.jf = StopPingInterval(@)]
        s4 == Emit([s3 EXCEPT !.host = PlayerManagerStop(@)], "host", "stop", "")
    IN  IF continuing
        THEN [s4 EXCEPT !.hist = NoteCall(@, <<"stop", "other">>)]
        ELSE [s4 EXCEPT !.mgr.activePlaylist = <<>>,
                        !.mgr.activePlaylistIndex = -1,
                        !.hist = NoteCall(@, <<"stop", "other">>)]

\* stop(continuing), PlaybackState variant
StopOp(s, continuing, k) ==
    LET s1 == [s EXCEPT !.mgr.playbackState.playNextItemBool = continuing]
        s2 == JfStop(s1, k)
        s3 == [s2 EXCEPT !.jf = StopPingInterval(@)]
        s4 == Emit([s3 EXCEPT !.host = PlayerManagerStop(@)], "host", "stop", "")
    IN  [s4 EXCEPT !.mgr.activePlaylist = <<>>,
                   !.mgr.activePlaylistIndex = -1,
                   !.hist = NoteCall(@, <<"stop", "other">>)]

\* stop(), $scope variant: onStopped will be called when playback halts
StopScopeOp(s) ==
    Emit([s EXCEPT !.host = PlayerManagerStop(@),
                   !.hist.lastCall = <<"stop", "other">>], "host", "stop", "")

\* onStopped(_continue), $scope variant
OnStoppedOp(s, continue) ==
    [s EXCEPT !.mgr.playbackState.playNextItemBool = continue,
              !.doc = "waiting",
              !.jf = StopPingInterval(@),
              !.mgr.activePlaylist = <<>>,
              !.mgr.activePlaylistIndex = -1,
              !.hist = NoteCall(@, <<"onStopped", "other">>)]

\* Is the item of the current PlaybackState loaded on the host surface?
ActiveSession(s) ==
    IF s.host.loaded # "" /\ s.host.loaded = s.mgr.playbackState.playSessionId
    THEN s.host.loaded ELSE ""

\* a finished call keeps what it ended with
\* the playlist position a call found: nothing recorded
NoBefore == [ index |-> -1, playlist |-> <<>> ]

Finished(n, pc, ms) ==
    [ item |-> n.item, index |-> 0, options |-> DefaultOptions, pc |-> pc,
      stopFirst |-> FALSE, prevSid |-> "", sid |-> n.sid, ms |-> ms,
      via |-> "", before |-> NoBefore ]

NewNeg(s, item, index, options, stopPlayer) ==
    [ item |-> item, index |-> index, options |-> options, pc |-> "start",
      stopFirst |-> stopPlayer, prevSid |-> ActiveSession(s),
      sid |-> "", ms |-> Null, via |-> "", before |-> NoBefore ]

\* observation: the playItem call a public method has just made is marked
\* with the method and with the playlist position the method found
Started(s0, s, via) ==
    IF Len(s.negs) > Len(s0.negs)
    THEN [s EXCEPT !.negs[Len(s.negs)].via = via,
                   !.negs[Len(s.negs)].before =
                        [ index |-> s0.mgr.activePlaylistIndex,
                          playlist |-> s0.mgr.activePlaylist ]]
    ELSE s

\* mutant: playItem that never stops the current player
PlayItemOp_NoStop(s, item, index, options, stopPlayer) ==
    [s EXCEPT !.negs = Append(@, NewNeg(s, item, index, options, stopPlayer))]

\* playItem(item, options, stopPlayer), up to its first suspension; the
\* rest of the call is the negotiation negs[k]
PlayItemOp(s, item, index, options, stopPlayer) ==
    LET k == Len(s.negs) + 1
        s1 == IF stopPlayer
              THEN IF variant = "PlaybackState"
                   THEN StopOp(s, TRUE, k)
                   ELSE StopScopeOp(s)
              ELSE s
    IN  [s1 EXCEPT !.negs = Append(@, NewNeg(s, item, index, options, stopPlayer))]

\* mutant: playNextItem that moves the index even when there is no next item
PlayNextItemOp_AlwaysAdvance(s, options, stopPlayer) ==
    LET nextItemInfo == GetNextPlaybackItemInfo(s.win) IN
    IF nextItemInfo.found
    THEN PlayItemOp([s EXCEPT !.mgr.activePlaylistIndex = nextItemInfo.index],
                    nextItemInfo.item, nextItemInfo.index, options, stopPlayer)
    ELSE [s EXCEPT !.mgr.activePlaylistIndex = @ + 1]

\* playNextItem(options, stopPlayer)
PlayNextItemOp(s, options, stopPlayer) ==
    LET nextItemInfo == GetNextPlaybackItemInfo(s.win) IN
    IF nextItemInfo.found
    THEN PlayItemOp([s EXCEPT !.mgr.activePlaylistIndex = nextItemInfo.index],
                    nextItemInfo.item, nextItemInfo.index, options, stopPlayer)
    ELSE s

PlayNextItemRet(s) == GetNextPlaybackItemInfo(s.win).found

\* this.activePlaylist[i]: undefined outside the array
ItemAt(playlist, i) ==
    IF i >= 0 /\ i < Len(playlist) THEN playlist[i + 1] ELSE Undefined

PlayPreviousItemRet(s) == s.mgr.activePlaylistIndex > 0

\* playPreviousItem(options)
PlayPreviousItemOp(s, options) ==
    IF PlayPreviousItemRet(s)
    THEN LET i == s.mgr.activePlaylistIndex - 1 IN
         PlayItemOp([s EXCEPT !.mgr.activePlaylistIndex = i],
                    ItemAt(s.mgr.activePlaylist, i), i, options, TRUE)
    ELSE s

\* playFromOptions(options) -> playFromOptionsInternal(options)
PlayFromOptionsInternalOp(s, options) ==
    LET stopPlayer == Len(s.mgr.activePlaylist) > 0
        s1 == [s EXCEPT !.mgr.activePlaylist = options.items,
                        !.win.currentPlaylistIndex = -1,
                        !.win.playlist = options.items]
    IN  PlayNextItemOp(s1, options, stopPlayer)

\* mutant: playMediaSource that resets and populates the state last, after
\* the media-source fields were written
PlayMediaSourceOp_LoadLast(s, playSessionId, item, mediaSource, options) ==
    LET customData == CustomData(playSessionId, item, mediaSource, options)
        written == [s.mgr.playbackState EXCEPT !.PlaybackMediaSource = mediaSource,
                                               !.mediaSource = mediaSource]
    IN  Emit([s EXCEPT
                !.mgr.playbackState = Load(written, customData, item),
                !.host = PlayerManagerLoad(@, playSessionId),
                !.doc = "backdrop"],
             "host", "load", playSessionId)

\* playMediaSource(playSessionId, item, mediaSource, options)
PlayMediaSourceOp(s, playSessionId, item, mediaSource, options) ==
    LET customData == CustomData(playSessionId, item, mediaSource, options)
        loaded == Load(s.mgr.playbackState, customData, item)
    IN  Emit([s EXCEPT
                !.mgr.playbackState =
                    [loaded EXCEPT !.PlaybackMediaSource = mediaSource,
                                   !.mediaSource = mediaSource],
                !.host = PlayerManagerLoad(@, playSessionId),
                !.doc = "backdrop"],
             "host", "load", playSessionId)

---------------------------------------------------------------------------
(* Initial state: module load and new playbackManager(playerManager) *)

HistInit ==
    [ lastCall |-> <<"none", "other">>,
      lastTimerCall |-> <<"none", "other">>,
      lastPingAt |-> -1,
      lastProgressAt |-> -1,
      stopped |-> FALSE,
      pingFailed |-> FALSE,
      lastReportId |-> "" ]

Op(name, ret, arg) == [op |-> name, ret |-> ret, arg |-> arg]

Init ==
    /\ variant \in Variants
    /\ mgr = [ activePlaylist |-> <<>>,
               activePlaylistIndex |-> 0,
               playbackState |-> ZeroPlaybackState ]
    /\ win = [ playlist |-> <<>>, currentPlaylistIndex |-> -1 ]
    /\ jf = JfInit
    /\ host = [ loaded |-> "" ]
    /\ doc = "waiting"
    /\ negs = <<>>
    /\ log = <<>>
    /\ now = StartTime
    /\ hist = HistInit
    /\ lastOp = Op("new", "void", <<>>)
    /\ out = <<>>

---------------------------------------------------------------------------
(* Calls of the manager's public methods *)

OptionsSet == [ items : Playlists, startPositionTicks : StartPositions ]

PlayFromOptions(options) ==
    /\ Len(negs) < MaxNegs
    /\ Commit(Started(Cur, PlayFromOptionsInternalOp(Cur, options), "playFromOptions"))
    /\ lastOp' = Op("playFromOptions",
                    IF PlayNextItemRet([Cur EXCEPT !.win.currentPlaylistIndex = -1,
                                                   !.win.playlist = options.items])
                    THEN "true" ELSE "false",
                    options.items)
    /\ UNCHANGED <<variant, now>>

PlayNextItem(stopPlayer) ==
    /\ PlayNextItemRet(Cur) => Len(negs) < MaxNegs
    /\ Commit(Started(Cur, PlayNextItemOp(Cur, DefaultOptions, stopPlayer), "playNextItem"))
    /\ lastOp' = Op("playNextItem",
                    IF PlayNextItemRet(Cur) THEN "true" ELSE "false", <<>>)
    /\ UNCHANGED <<variant, now>>

PlayPreviousItem ==
    /\ PlayPreviousItemRet(Cur) => Len(negs) < MaxNegs
    /\ Commit(Started(Cur, PlayPreviousItemOp(Cur, DefaultOptions), "playPreviousItem"))
    /\ lastOp' = Op("playPreviousItem",
                    IF PlayPreviousItemRet(Cur) THEN "true" ELSE "false", <<>>)
    /\ UNCHANGED <<variant, now>>

Stop(continuing) ==
    /\ variant = "PlaybackState"
    /\ Commit(StopOp(Cur, continuing, 0))
    /\ lastOp' = Op("stop", IF jf.timers # {} THEN "cleared" ELSE "void", <<>>)
    /\ UNCHANGED <<variant, now>>

StopScope ==
    /\ variant = "$scope"
    /\ Commit(StopScopeOp(Cur))
    /\ lastOp' = Op("stop", IF jf.timers # {} THEN "cleared" ELSE "void", <<>>)
    /\ UNCHANGED <<variant, now>>

\* onStopped(_continue): the caller reports that playback came to a halt
OnStopped(continue) ==
    /\ variant = "$scope"
    /\ Commit(OnStoppedOp([Cur EXCEPT !.host.loaded = ""], continue))
    /\ lastOp' = Op("onStopped", IF jf.timers # {} THEN "cleared" ELSE "void", <<>>)
    /\ UNCHANGED <<variant, now>>

ResetPlaybackScopeCall ==
    /\ variant = "PlaybackState"
    /\ mgr' = [mgr EXCEPT !.playbackState = ResetPlaybackScope(@)]
    /\ doc' = "waiting"
    /\ lastOp' = Op("resetPlaybackScope", "void", <<>>)
    /\ out' = <<>>
    /\ UNCHANGED <<variant, win, jf, host, negs, log, now, hist>>

---------------------------------------------------------------------------
(* The negotiation of playItem call k: onStopPlayerBeforePlaybackDone and *)
(* playItemInternal, one action per resumption                             *)

\* the ErrorCode of a playback-info response that carries one
ServerErrorCode == "NotAllowed"

\* playItemInternal is in flight: between its first await and its call of
\* playMediaSource or its failure
InFlightPcs == {"maxBitrate", "playbackInfo", "optimalSource", "liveStream"}

\* onStopPlayerBeforePlaybackDone(item, options) hands over to
\* playItemInternal, which runs up to `await getMaxBitrate()`
BeginOp(s, k) ==
    IF s.negs[k].item = Undefined
    THEN [s EXCEPT !.negs[k] = Finished(@, "threw", Null)]
    ELSE [s EXCEPT !.win.currentPlaylistIndex = s.negs[k].index,
                   !.mgr.playbackState.isChangingStream = FALSE,
                   !.doc = "loading",
                   !.negs[k].pc = "maxBitrate"]

\* getMaxBitrate() resolved: the playback-info request is issued
GetPlaybackInfoOp(s, k) ==
    [s EXCEPT !.log = Append(@, [ev |-> "playbackInfo", id |-> s.negs[k].item,
                                 neg |-> k]),
              !.negs[k].pc = "playbackInfo"]

\* the playback-info request settles: rejected (broadcastConnectionErrorMessage
\* runs and yields undefined, so playbackInfo.ErrorCode throws), answered with
\* an ErrorCode, or answered with media sources and a PlaySessionId
PlaybackInfoSettledOp(s, k, outcome) ==
    CASE outcome = "reject" ->
            Emit([s EXCEPT !.negs[k] = Finished(@, "threw", Null)],
                 "broadcast", "connectionerror", "")
      [] outcome = "error" ->
            Emit([s EXCEPT !.negs[k] = Finished(@, "failed", Null)],
                 "message", ServerErrorCode, "")
      [] OTHER ->
            [s EXCEPT !.negs[k].pc = "optimalSource",
                      !.negs[k].sid = SessionNames[k]]

\* mutant: with no compatible source the first offered source is played
OptimalSourceOp_Fallback(s, k, ms) ==
    LET n == s.negs[k]
        src == IF ms = Null THEN "msTranscode" ELSE ms IN
    IF SourceInfo(src).RequiresOpening
    THEN [s EXCEPT !.negs[k].pc = "liveStream", !.negs[k].ms = src]
    ELSE [PlayMediaSourceOp(s, n.sid, n.item, src, n.options)
            EXCEPT !.negs[k] = Finished(n, "loaded", src)]

\* getOptimalMediaSource(playbackInfo.MediaSources) resolved with ms
OptimalSourceOp(s, k, ms) ==
    LET n == s.negs[k] IN
    IF ms = Null
    THEN Emit([s EXCEPT !.negs[k] = Finished(@, "failed", Null)],
              "message", "NoCompatibleStream", "")
    ELSE IF SourceInfo(ms).RequiresOpening
    THEN [s EXCEPT !.negs[k].pc = "liveStream", !.negs[k].ms = ms]
    ELSE [PlayMediaSourceOp(s, n.sid, n.item, ms, n.options)
            EXCEPT !.negs[k] = Finished(n, "loaded", ms)]

\* getLiveStream(...) settles: rejected, or answered with ("opened") or
\* without ("same") a MediaSource
LiveStreamSettledOp(s, k, outcome) ==
    LET n == s.negs[k] IN
    IF outcome = "reject"
    THEN [s EXCEPT !.negs[k] = Finished(@, "threw", Null)]
    ELSE LET s1 == IF outcome = "opened"
                   THEN Emit(s, "checkDirectPlay", OpenedSource, "")
                   ELSE s
             itemToPlay == IF outcome = "opened" THEN OpenedSource ELSE n.ms
         IN  [PlayMediaSourceOp(s1, n.sid, n.item, itemToPlay, n.options)
                EXCEPT !.negs[k] = Finished(n, "loaded", itemToPlay)]

\* observation: which call a settling step belongs to
Settled(k) == [ k |-> k, via |-> negs[k].via, before |-> negs[k].before ]

NegBegin(k) ==
    /\ negs[k].pc = "start"
    /\ Commit(BeginOp(Cur, k))
    /\ lastOp' = Op("other", "void", <<>>)
    /\ UNCHANGED <<variant, now>>

NegGetPlaybackInfo(k) ==
    /\ negs[k].pc = "maxBitrate"
    /\ Commit(GetPlaybackInfoOp(Cur, k))
    /\ lastOp' = Op("other", "void", <<>>)
    /\ UNCHANGED <<variant, now>>

NegPlaybackInfoSettled(k, outcome) ==
    /\ negs[k].pc = "playbackInfo"
    /\ Commit(PlaybackInfoSettledOp(Cur, k, outcome))
    /\ lastOp' = Op("negotiation",
                    CASE outcome = "reject" -> "infoRejected"
                      [] outcome = "error" -> "errorCode"
                      [] OTHER -> "void",
                    Settled(k))
    /\ UNCHANGED <<variant, now>>

NegOptimalSource(k, ms) ==
    /\ negs[k].pc = "optimalSource"
    /\ Commit(OptimalSourceOp(Cur, k, ms))
    /\ lastOp' = Op("negotiation", IF ms = Null THEN "noSource" ELSE "void",
                    Settled(k))
    /\ UNCHANGED <<variant, now>>

NegLiveStreamSettled(k, outcome) ==
    /\ negs[k].pc = "liveStream"
    /\ Commit(LiveStreamSettledOp(Cur, k, outcome))
    /\ lastOp' = Op("negotiation",
                    CASE outcome = "reject" -> "openRejected"
                      [] outcome = "opened" -> "opened"
                      [] OTHER -> "notOpened",
                    Settled(k))
    /\ UNCHANGED <<variant, now>>

---------------------------------------------------------------------------
(* Calls of the reporter, the timer and the clock *)

\* reporting parameters of any session
SessionParamsSet == [ PlaySessionId : SessionIds, PlayMethod : PlayMethods ]

\* observation: was a timer live when the call was made?
HadTimer == IF jf.timers # {} THEN "cleared" ELSE "void"

ReportPlaybackStart(reportingParams) ==
    /\ Commit(ReportPlaybackStartOp(Cur, reportingParams, now))
    /\ lastOp' = Op("report", HadTimer, <<>>)
    /\ UNCHANGED <<variant, now>>

ReportPlaybackProgress(reportingParams, reportToServer) ==
    /\ Commit(ReportPlaybackProgressOp(Cur, reportingParams, reportToServer, now))
    /\ lastOp' = Op("report", IF reportToServer THEN HadTimer ELSE "local", <<>>)
    /\ UNCHANGED <<variant, now>>

ReportPlaybackStopped(reportingParams) ==
    /\ Commit(ReportPlaybackStoppedOp(Cur, reportingParams, 0))
    /\ lastOp' = Op("report", HadTimer, <<>>)
    /\ UNCHANGED <<variant, now>>

\* history: have at least PingThreshold ms passed since the event at time t0
\* (-1: it never happened)?
Elapsed(t0, t) == t0 = -1 \/ t - t0 >= PingThreshold

\* how the promise of a ping request settles
PingOutcomes == {"resolved", "rejected"}

\* a live interval timer fires: pingTranscoder(reportingParams); the callback
\* drops the promise, so the outcome of the request reaches no program state
TimerFire(t, outcome) ==
    /\ t \in jf.timers
    /\ t.due <= now
    /\ LET j == [jf EXCEPT !.timers = (@ \ {t}) \cup {[t EXCEPT !.due = @ + PingPeriod]}]
           sent == PingSent(j, now) IN
       /\ jf' = PingTranscoder(j, now)
       /\ hist' = [hist EXCEPT !.lastPingAt = IF sent THEN now ELSE @,
                               !.pingFailed = IF sent THEN outcome = "rejected" ELSE @]
       /\ lastOp' = Op("tick", IF sent THEN "ping" ELSE "skip",
                       [ elapsed |-> Elapsed(hist.lastPingAt, now)
                                        /\ Elapsed(hist.lastProgressAt, now),
                         kept |-> PingTranscoder(j, now).lastTranscoderPing
                                        = jf.lastTranscoderPing,
                         afterFailure |-> hist.pingFailed ])
       /\ out' = IF sent
                 THEN << [kind |-> "post", what |-> "Sessions/Playing/Ping",
                          id |-> t.params.PlaySessionId] >>
                 ELSE <<>>
    /\ UNCHANGED <<variant, mgr, win, host, doc, negs, log, now>>

\* one ping period passes; every tick that was due has fired
AdvanceTime ==
    /\ now < MaxTime
    /\ \A t \in jf.timers : t.due > now
    /\ now' = now + PingPeriod
    /\ lastOp' = Op("other", "void", <<>>)
    /\ out' = <<>>
    /\ UNCHANGED <<variant, mgr, win, jf, host, doc, negs, log, hist>>

---------------------------------------------------------------------------
(* Specifications *)

PlayCalls ==
    \/ \E options \in OptionsSet : PlayFromOptions(options)
    \/ \E stopPlayer \in BOOLEAN : PlayNextItem(stopPlayer)
    \/ PlayPreviousItem

StopCalls ==
    \/ \E continuing \in BOOLEAN : Stop(continuing)
    \/ StopScope
    \/ \E continue \in BOOLEAN : OnStopped(continue)

NegotiationNext ==
    \/ \E k \in 1..Len(negs) : NegBegin(k)
    \/ \E k \in 1..Len(negs) : NegGetPlaybackInfo(k)
    \/ \E k \in 1..Len(negs), outcome \in {"reject", "error", "ok"} :
          NegPlaybackInfoSettled(k, outcome)
    \/ \E k \in 1..Len(negs), ms \in MediaSources \cup {Null} : NegOptimalSource(k, ms)
    \/ \E k \in 1..Len(negs), outcome \in {"reject", "opened", "same"} :
          NegLiveStreamSettled(k, outcome)

ReporterNext(paramsSet) ==
    \/ \E p \in paramsSet : ReportPlaybackStart(p)
    \/ \E p \in paramsSet, reportToServer \in BOOLEAN :
          ReportPlaybackProgress(p, reportToServer)
    \/ \E p \in paramsSet : ReportPlaybackStopped(p)

ClockNext ==
    \/ \E t \in jf.timers, outcome \in PingOutcomes : TimerFire(t, outcome)
    \/ AdvanceTime

\* The manager: its public methods and the negotiations they start
Next == PlayCalls \/ StopCalls \/ ResetPlaybackScopeCall \/ NegotiationNext

Spec == Init /\ [][Next]_vars

\* The keep-alive timer under the reports and the manager's stops (the
\* negotiations are left suspended: they do not touch the timer)
TimerNext == PlayCalls \/ StopCalls \/ ReporterNext(SessionParamsSet)

SpecTimer == Init /\ [][TimerNext]_vars

\* The reporter, its timer and the clock
PingInit == Init /\ variant = "PlaybackState"

PingNext == ReporterNext(SessionParamsSet) \/ ClockNext

SpecPing == PingInit /\ [][PingNext]_vars

\* The coalescing scenario: progress reports of a Transcode session are
\* posted at StartTime and 3 s later, and at no other time
ScenarioProgress(p) ==
    /\ p.PlayMethod = "Transcode"
    /\ \/ hist.lastProgressAt = -1 /\ now = StartTime
       \/ hist.lastProgressAt = StartTime /\ now = StartTime + 3 * PingPeriod
    /\ ReportPlaybackProgress(p, TRUE)

CoalesceNext ==
    \/ \E p \in SessionParamsSet : ScenarioProgress(p)
    \/ \E p \in SessionParamsSet : p.PlayMethod = "Transcode" /\ ReportPlaybackStart(p)
    \/ \E p \in SessionParamsSet : ReportPlaybackProgress(p, FALSE)
    \/ ClockNext

SpecCoalesce == PingInit /\ [][CoalesceNext]_vars

---------------------------------------------------------------------------
(* Claims about the manager (Spec) *)

\* the stopped-reports in the log that playItem call k issued for session sid
StopReports(k, sid) ==
    { i \in 1..Len(log) :
        log[i].ev = "stopped" /\ log[i].neg = k /\ log[i].id = sid }

\* the playback-info requests in the log of a stop-first playItem call made
\* while a session was active
StopFirstRequests ==
    { j \in 1..Len(log) :
        /\ log[j].ev = "playbackInfo"
        /\ negs[log[j].neg].stopFirst
        /\ negs[log[j].neg].prevSid # "" }

C7_NoAdvanceNoEffect ==
    [][ /\ ( lastOp'.op = "playNextItem"
             /\ win.currentPlaylistIndex + 1 >= Len(win.playlist) )
           => ( lastOp'.ret = "false"
                /\ UNCHANGED <<mgr, win, jf, host, doc, negs, log, hist>> )
        /\ ( lastOp'.op = "playPreviousItem" /\ mgr.activePlaylistIndex <= 0 )
           => ( lastOp'.ret = "false"
                /\ UNCHANGED <<mgr, win, jf, host, doc, negs, log, hist>> )
      ]_vars

C7_Witness ==
    /\ lastOp.op = "playNextItem"
    /\ lastOp.ret = "false"
    /\ Len(win.playlist) > 1
    /\ win.currentPlaylistIndex = Len(win.playlist) - 1
    /\ mgr.activePlaylist = win.playlist

\* playback has just stopped: stop(continuing) returned (directly or inside
\* a stop-first playItem) in the PlaybackState variant, onStopped returned
\* in the $scope variant
PlaybackJustStopped ==
    \/ variant = "PlaybackState" /\ lastOp.op = "stop"
    \/ /\ variant = "PlaybackState"
       /\ lastOp.op \in {"playFromOptions", "playNextItem", "playPreviousItem"}
       /\ lastOp.ret = "true"
       /\ negs[Len(negs)].stopFirst
    \/ lastOp.op = "onStopped"

C9_PlaylistInstalled ==
    lastOp.op = "playFromOptions" =>
        /\ mgr.activePlaylist = lastOp.arg
        /\ Len(negs) > 0
        /\ negs[Len(negs)].pc = "start"
        /\ negs[Len(negs)].item = lastOp.arg[1]

\* C10 as claimed: after resetPlaybackScope every field of PlaybackState
\* has its zero value.
C10_ResetToZero ==
    lastOp.op = "resetPlaybackScope" => mgr.playbackState = ZeroPlaybackState

---------------------------------------------------------------------------
(* Claims about the keep-alive timer (SpecTimer) *)

TimerLive == jf.timers # {}

C4_AtMostOneTimer == Cardinality(jf.timers) <= 1

C4_Witness ==
    /\ lastOp = Op("report", "cleared", <<>>)
    /\ Cardinality(jf.timers) = 1

---------------------------------------------------------------------------
(* Claims about ping coalescing (SpecPing, SpecCoalesce) *)

\* C5: a timer tick sends a ping only if at least 5 s have passed since the
\* last ping sent and since the last progress report posted to the server;
\* a tick that sends nothing leaves lastTranscoderPing unchanged.
C5_PingCoalescing ==
    lastOp.op = "tick" =>
        /\ lastOp.ret = "ping" => lastOp.arg.elapsed
        /\ lastOp.ret = "skip" => lastOp.arg.kept

C5_Witness ==
    /\ lastOp.op = "tick"
    /\ lastOp.ret = "skip"
    /\ hist.lastPingAt # -1
    /\ hist.lastProgressAt > hist.lastPingAt

\* the tick that has just fired n ping periods after the first progress
\* report, the second report having been posted
TickAt(n) ==
    /\ lastOp.op = "tick"
    /\ now = StartTime + n * PingPeriod

\* C6 as claimed: with progress reports at t = 0 and t = 3 s, the tick at
\* t = 1 s is suppressed and the tick at t = 6 s sends a ping.
C6_TickAtSixFires ==
    /\ TickAt(1) /\ hist.lastProgressAt # -1 => lastOp.ret = "skip"
    /\ TickAt(6) /\ hist.lastProgressAt = StartTime + 3 * PingPeriod
          => lastOp.ret = "ping"

\* C6 (amended): with progress reports at t = 0 and t = 3 s, the ticks at
\* t = 1 s and at t = 6 s are both suppressed (at 6 s only 3 s have passed
\* since the second report); the tick at t = 8 s sends a ping.
C6_TickAtSixFires_Amended ==
    /\ TickAt(1) /\ hist.lastProgressAt # -1 => lastOp.ret = "skip"
    /\ TickAt(6) /\ hist.lastProgressAt = StartTime + 3 * PingPeriod
          => lastOp.ret = "skip"
    /\ TickAt(8) /\ hist.lastProgressAt = StartTime + 3 * PingPeriod
          => lastOp.ret = "ping"

C6_Witness ==
    /\ TickAt(8)
    /\ hist.lastProgressAt = StartTime + 3 * PingPeriod
    /\ lastOp.ret = "ping"

---------------------------------------------------------------------------
(* Claims about stopping (SpecTimer) *)

\* two program states that differ at most in the recorded advance flag
SameButFlag(a, b) ==
    [a EXCEPT !.mgr.playbackState.playNextItemBool = TRUE]
        = [b EXCEPT !.mgr.playbackState.playNextItemBool = TRUE]

\* the timer is cancelled, the host surface holds no media, the playlist is
\* cleared
TornDown(s) ==
    /\ s.jf.timers = {}
    /\ s.host.loaded = ""
    /\ s.mgr.activePlaylist = <<>>
    /\ s.mgr.activePlaylistIndex = -1

\* the state stopping leads to from the current state: stop(continuing) in
\* the PlaybackState variant, onStopped(_continue) once the host surface has
\* halted in the $scope variant
AfterStop(continuing) ==
    IF variant = "PlaybackState"
    THEN StopOp(Cur, continuing, 0)
    ELSE OnStoppedOp([Cur EXCEPT !.host.loaded = ""], continuing)

---------------------------------------------------------------------------
(* Claims about negotiation (Spec) *)

FinalPcs == {"threw", "failed", "loaded"}

\* the negotiation step that has just run found a server ErrorCode, no
\* compatible source, or a rejected live-stream open
FailureCauses == {"errorCode", "noSource", "openRejected"}

\* the one error message a handler surfaced
Message(key) == << [kind |-> "message", what |-> key, id |-> ""] >>

\* C12: a negotiation that fails (ErrorCode in the playback-info response, no
\* compatible source, live-stream open fails) hands nothing to the host
\* surface: no playMediaSource, no playerManager.load, PlaybackState not
\* repopulated, no other candidate source tried (the negotiation is over),
\* and the message surfaced is the server's ErrorCode, or
\* 'NoCompatibleStream' when no source qualifies.
C12_FailureHandsNothingOver ==
    [][ /\ ( lastOp'.op = "negotiation" /\ lastOp'.ret \in FailureCauses ) =>
            /\ host' = host
            /\ mgr' = mgr
            /\ \A i \in 1..Len(out') : out'[i].kind # "host"
            /\ negs'[lastOp'.arg.k].pc \in {"threw", "failed"}
            /\ lastOp'.ret = "errorCode" => out' = Message(ServerErrorCode)
            /\ lastOp'.ret = "noSource" => out' = Message("NoCompatibleStream")
        /\ \A k \in 1..Len(negs) : negs[k].pc \in FinalPcs => negs'[k] = negs[k]
      ]_vars

C12_Witness ==
    /\ lastOp.op = "negotiation"
    /\ lastOp.ret = "noSource"
    /\ negs[lastOp.arg.k].pc = "failed"
    /\ host.loaded # ""
    /\ host.loaded = mgr.playbackState.playSessionId

\* C13 as claimed: when the negotiation started by playNextItem or
\* playPreviousItem fails, the playlist and activePlaylistIndex equal their
\* values before the call.
C13_FailureKeepsPosition ==
    ( /\ lastOp.op = "negotiation"
      /\ lastOp.ret \in FailureCauses \cup {"infoRejected"}
      /\ lastOp.arg.via \in {"playNextItem", "playPreviousItem"} )
    => /\ mgr.activePlaylistIndex = lastOp.arg.before.index
       /\ mgr.activePlaylist = lastOp.arg.before.playlist

\* C14 as claimed: no negotiation failure escapes as an exception or a
\* rejected promise: a server ErrorCode, no compatible source and a failed
\* live-stream open each end the negotiation with a normal return and a
\* user-visible message.  (The handler of a rejected playback-info call,
\* broadcastConnectionErrorMessage, is outside src/; that case is left out
\* of the formula.)
C14_NoFailureEscapes ==
    ( lastOp.op = "negotiation" /\ lastOp.ret \in FailureCauses )
    => /\ negs[lastOp.arg.k].pc = "failed"
       /\ \E i \in 1..Len(out) : out[i].kind = "message"

\* C15 as claimed: when the selected source requires opening and the open
\* succeeds, the source handed to playMediaSource is the opened source, and
\* direct-play eligibility is re-evaluated on it; the original unopened
\* source is never played for a source that requires opening.
C15_OpenedSourcePlayed ==
    /\ ( lastOp.op = "negotiation" /\ lastOp.ret = "opened" ) =>
          /\ mgr.playbackState.mediaSource = OpenedSource
          /\ out[1] = [kind |-> "checkDirectPlay", what |-> OpenedSource, id |-> ""]
    /\ \A k \in 1..Len(negs) :
          negs[k].pc = "loaded" => ~SourceInfo(negs[k].ms).RequiresOpening

---------------------------------------------------------------------------
(* Claims about the reports (SpecPing) *)

\* C16: reportPlaybackProgress always broadcasts the progress event; with
\* reportToServer = false it posts nothing and leaves the keep-alive timer
\* and the last-ping timestamp unchanged; with reportToServer = true it
\* restarts the timer, sets the last-ping timestamp and posts the event.
C16_LocalProgressTouchesNothing ==
    [][ /\ ( lastOp'.op = "report" /\ lastOp'.ret = "local" ) =>
            /\ Len(out') = 1
            /\ out'[1].kind = "broadcast" /\ out'[1].what = "playbackprogress"
            /\ jf' = jf
        /\ ( lastOp'.op = "report" /\ lastOp'.ret # "local"
             /\ hist'.lastCall[1] = "progress" ) =>
            /\ Len(out') = 2
            /\ out'[1].kind = "broadcast" /\ out'[1].what = "playbackprogress"
            /\ out'[2].kind = "post" /\ out'[2].what = "Sessions/Playing/Progress"
            /\ jf'.lastTranscoderPing = now
            /\ \A t \in jf'.timers : t.due = now + PingPeriod
            /\ (jf'.timers # {}) <=> IsTranscodeCall(hist'.lastCall)
      ]_vars

C16_Witness ==
    /\ lastOp = Op("report", "local", <<>>)
    /\ Len(out) = 1
    /\ TimerLive
    /\ jf.lastTranscoderPing < now
    /\ \E t \in jf.timers : t.due = now

\* the stop report's effects, in the order it makes them
StopReportOrder(o) ==
    /\ Len(o) = 3
    /\ o[1].kind = "cancel"
    /\ o[2].kind = "broadcast" /\ o[2].what = "playbackstop"
    /\ o[3].kind = "post" /\ o[3].what = "Sessions/Playing/Stopped"

\* C17 as claimed: reportPlaybackStopped cancels the keep-alive timer before
\* it broadcasts and before it posts, and no ping request is sent after a
\* stop report has been initiated, whatever ticks and progress reports
\* (also ones issued after the stop) interleave with it.
C17_NoPingAfterStop ==
    /\ ( lastOp.op = "report" /\ lastOp.ret # "local"
         /\ hist.lastCall[1] = "stopped" ) =>
          StopReportOrder(out) /\ ~TimerLive
    /\ ( lastOp.op = "tick" /\ lastOp.ret = "ping" ) => ~hist.stopped

---------------------------------------------------------------------------
(* Claims about concurrent negotiations and reporting (Spec) *)

\* the playItem calls whose playItemInternal is in flight
InFlight == { k \in 1..Len(negs) : negs[k].pc \in InFlightPcs }

\* C18 as claimed: at most one negotiation is in flight at any time; a play
\* request that arrives while one is in flight supersedes it.
C18_SingleNegotiation == Cardinality(InFlight) <= 1

\* the host surface has just been handed a source
JustLoaded ==
    /\ lastOp.op = "negotiation"
    /\ \E i \in 1..Len(out) : out[i].kind = "host" /\ out[i].what = "load"

\* C19 as claimed: playMediaSource is never applied for a negotiation that
\* is not the most recently started one, so the session loaded on the host
\* surface is that of the most recently requested item.
C19_LateResponseDiscarded ==
    JustLoaded =>
        /\ lastOp.arg.k = Len(negs)
        /\ host.loaded = SessionNames[Len(negs)]

\* C20 as claimed: every start, progress, stop and ping request sent to the
\* server carries a non-empty play session id.
C20_SessionIdNonEmpty ==
    \A i \in 1..Len(out) : out[i].kind = "post" => out[i].id # ""

---------------------------------------------------------------------------
(* Claims about the PlaybackState lifecycle (Spec) *)

\* the state correlates with no session: none of the four identifiers is set
NoIdentifiers(ps) ==
    /\ ps.playSessionId = ""
    /\ ps.itemId = ""
    /\ ps.mediaSourceId = ""
    /\ ps.liveStreamId = ""

\* playItem call k is being negotiated and no other call is
NegotiatingAlone(k) ==
    /\ negs[k].pc \in InFlightPcs
    /\ \A j \in 1..Len(negs) : j # k => negs[j].pc \in FinalPcs

\* C21 as claimed: while an item is being negotiated the PlaybackState holds
\* none of the previous item's identifiers (playSessionId, itemId,
\* mediaSourceId, liveStreamId), and after stop it holds none either.
C21_StateResetOnPlayAndStop ==
    /\ \A k \in 1..Len(negs) :
          NegotiatingAlone(k) => NoIdentifiers(mgr.playbackState)
    /\ PlaybackJustStopped => NoIdentifiers(mgr.playbackState)

---------------------------------------------------------------------------
(* Claims about failed pings and the session a ping is sent for (SpecPing) *)

---------------------------------------------------------------------------
(* Claims about the end of a negotiation (SpecLive) *)

\* The manager under the assumption that every network call of a
\* negotiation eventually resolves or rejects
SpecLive == Init /\ [][Next]_vars /\ WF_vars(NegotiationNext)

\* DocumentManager.setAppStatus('loading'): the manager is negotiating
Negotiating == doc = "loading"

\* C23 as claimed: every negotiation that has been entered eventually leaves
\* the Negotiating state, into Loaded or back to Idle; the manager is never
\* left in Negotiating forever.
C23_NegotiationEnds == Negotiating ~> ~Negotiating

\* C24: every keep-alive ping request carries the PlaySessionId of the most
\* recent start or server progress report, which was made with PlayMethod
\* 'Transcode'; once a newer report has restarted or cancelled the timer, no
\* ping is sent for the play session id of an earlier report.
C24_PingForLatestSession ==
    ( lastOp.op = "tick" /\ lastOp.ret = "ping" ) =>
        /\ out = << [kind |-> "post", what |-> "Sessions/Playing/Ping",
                     id |-> hist.lastReportId] >>
        /\ IsTranscodeCall(hist.lastCall)

C24_Witness ==
    /\ lastOp.op = "tick"
    /\ lastOp.ret = "ping"
    /\ hist.lastReportId = "ps2"
    /\ hist.lastCall = <<"progress", "Transcode">>
    /\ hist.lastProgressAt > StartTime
    /\ TimerLive

---------------------------------------------------------------------------
(* Claims about the state playMediaSource leaves (Spec) *)

\* C25: after playMediaSource(playSessionId, item, mediaSource, options)
\* returns, the PlaybackState agrees with what was handed to the host
\* surface: playSessionId is the negotiated id, item is the given item, and
\* mediaSource and PlaybackMediaSource both are the resolved source, not null.
C25_StateMatchesHost ==
    JustLoaded =>
        LET n == negs[lastOp.arg.k]
            ps == mgr.playbackState IN
        /\ n.pc = "loaded"
        /\ n.sid # "" /\ n.ms # Null
        /\ ps.playSessionId = n.sid
        /\ host.loaded = n.sid
        /\ ps.item = n.item
        /\ ps.mediaSource = n.ms
        /\ ps.PlaybackMediaSource = n.ms

C25_Witness ==
    /\ JustLoaded
    /\ lastOp.arg.k = 2
    /\ negs[1].pc = "loaded"
    /\ negs[1].ms # negs[2].ms
    /\ mgr.playbackState.mediaSource = OpenedSource
    /\ mgr.playbackState.playSessionId = "ps2"

====
